---------------------------- MODULE Spec2Model ----------------------------
(***************************************************************************)
(* Model of the UsefulScripts reconnaissance tools:                        *)
(*   - pythonAutoSock.scan_port, run step by step in single-scan mode,     *)
(*   - the bulk scan of pythonAutoSock.main (thread pool + CSV writer),    *)
(*   - autoNC.main (thread pool, result queue, result_handler consumer),   *)
(*   - autoCurl.main (pairwise targets, thread pool, ordered output).      *)
(* The variable prog says which program a behaviour runs.                  *)
(***************************************************************************)
EXTENDS Integers, Sequences, FiniteSets, TLC

VARIABLES
    prog,       \* which program runs: "single", "bulk", "nc" or "curl"
    \* ---- scan_port (single-scan mode of pythonAutoSock.main) ----
    timeout,    \* args.timeout
    peerProto,  \* what the target speaks once connected: "tls" (answers a
                \* ClientHello with a valid handshake), "tls_mismatch" (speaks
                \* TLS, no common version or cipher) or "plain"
    sslHasWrap, \* whether the running Python still has ssl.wrap_socket
    pc,         \* position inside scan_port
    result,     \* the result dict of scan_port
    sock,       \* the probe's socket: "none", "open" or "closed"
    ops,        \* the calls scan_port has made so far, in order, each with
                \* its outcome: <<call, outcome>>
    \* ---- the batch programs ----
    ips,        \* the host list read from the first input file
    ports,      \* the port list read from the second input file
    W,          \* max_workers of the ThreadPoolExecutor
    mpc,        \* position of the main thread
    nsub,       \* number of tasks submitted to the pool so far
    queue,      \* the pool's work queue: submitted tasks no worker has taken
    running,    \* the tasks a worker thread is executing
    fut,        \* task -> state of its future: "pending" or its outcome
    yielded,    \* the futures as_completed has handed to the main loop
    err,        \* the exception propagating in the main thread, or "none"
    out,        \* the records written to the output file, in order
    outfile,    \* the output file object: "open" or "closed"
    rq,         \* autoNC: result_queue
    checked,    \* autoNC: checked['count']
    hpc,        \* autoNC: position of the result_handler thread
    hitem,      \* autoNC: the item result_handler holds
    results,    \* autoCurl: results[(ip, port, proto)], a list of methods
    started,    \* history: the tasks in the order workers started them
    failedAt,   \* history: Len(started) when a write to the output failed,
                \* -1 while none has
    writers,    \* history: the threads that have called write on the output
    puts        \* history: autoNC, the tasks in the order of their
                \* result_queue.put

probeVars == <<timeout, peerProto, sslHasWrap, pc, result, sock, ops>>
poolVars  == <<W, nsub, queue, running, fut, started>>
batchVars == <<ips, ports, poolVars, mpc, yielded, err, out, outfile,
               rq, checked, hpc, hitem, results, failedAt, writers, puts>>
vars == <<prog, probeVars, batchVars>>

----------------------------------------------------------------------------
(* scan_port: the result dict and the values its fields take.              *)

\* The three messages the except clauses store in result['banner'].
MsgTimeout == "Connection timed out"
MsgRefused == "Connection refused"
MsgError   == "Error: e"
FailureMessages == {MsgTimeout, MsgRefused, MsgError}

\* The result dict as built before the socket is created; '' means absent.
EmptyResult ==
    [status |-> FALSE, banner |-> "",
     local_ip |-> "", local_port |-> "", peer_ip |-> "", peer_port |-> "",
     service |-> "", latency_ms |-> "", rdns |-> "",
     sndbuf |-> "", rcvbuf |-> "", ttl |-> "",
     tls_version |-> "", tls_cipher |-> "", cert_subject |-> ""]

\* except socket.timeout / ConnectionRefusedError / Exception of the outer try.
ExceptTimeout(r) == [r EXCEPT !.status = FALSE, !.banner = MsgTimeout]
ExceptRefused_Shadowed(r) == [r EXCEPT !.status = FALSE, !.banner = MsgError]
ExceptRefused(r) == [r EXCEPT !.status = FALSE, !.banner = MsgRefused]
\* An outer handler that records the error and leaves status as it was.
ExceptOther_StatusKept(r) == [r EXCEPT !.banner = MsgError]
ExceptOther(r)   == [r EXCEPT !.status = FALSE, !.banner = MsgError]

\* sock.connect succeeded: status and latency are recorded.
AfterConnect(r) == [r EXCEPT !.status = TRUE, !.latency_ms = "ms"]

\* Both endpoint calls returned: the four endpoint fields are stored.
AfterEndpoints(r) ==
    [r EXCEPT !.local_ip = "lip", !.local_port = "lport",
              !.peer_ip = "pip", !.peer_port = "pport"]

\* The socket-option block: the three assignments run in order inside one try,
\* n of them complete before a getsockopt raises (n = 3: none raises).
AfterSockOpts(r, n) ==
    [r EXCEPT !.sndbuf = IF n >= 1 THEN "snd" ELSE @,
              !.rcvbuf = IF n >= 2 THEN "rcv" ELSE @,
              !.ttl    = IF n >= 3 THEN "ttl" ELSE @]

\* The banner block: recv returned data, returned nothing, or raised.
AfterBanner(r, o) == [r EXCEPT !.banner = IF o = "data" THEN "BANNER" ELSE ""]

\* ssl.wrap_socket as the standard library defines it, and the call made.
WrapSocketParams ==
    {"sock", "keyfile", "certfile", "server_side", "cert_reqs", "ssl_version",
     "ca_certs", "do_handshake_on_connect", "suppress_ragged_eofs", "ciphers"}
WrapSocketCall == {"sock", "server_hostname", "do_handshake_on_connect"}

\* The call raises AttributeError when the function is gone (Python >= 3.12)
\* and TypeError when handed a keyword it does not take.
WrapSocketRaises(hasWrap) == ~hasWrap \/ ~(WrapSocketCall \subseteq WrapSocketParams)

\* do_handshake against the peer: only a peer that answers the ClientHello
\* with a valid handshake completes it.
Handshake(proto) == IF proto = "tls" THEN "ok" ELSE "raised"

\* A TLS block that stores the protocol version before it knows whether the
\* wrap and the handshake succeed.
AfterTls_VersionFirst(r, hasWrap, hs, cert) ==
    IF WrapSocketRaises(hasWrap) \/ hs # "ok"
    THEN [r EXCEPT !.tls_version = "TLSv1.3"]
    ELSE [r EXCEPT !.tls_version = "TLSv1.3", !.tls_cipher = "cipher"]

\* The TLS block with a failure surfaced as a probe failure.
AfterTls_Surfaced(r, hasWrap, hs, cert) ==
    IF WrapSocketRaises(hasWrap) \/ hs # "ok"
    THEN [r EXCEPT !.status = FALSE, !.banner = MsgError]
    ELSE [r EXCEPT !.tls_version = "TLSv1.3", !.tls_cipher = "cipher"]

\* The TLS block: what the try body leaves in the result. hs is the outcome
\* of do_handshake, cert the outcome of reading the certificate subject.
AfterTls(r, hasWrap, hs, cert) ==
    IF WrapSocketRaises(hasWrap) \/ hs # "ok" THEN r
    ELSE LET r1 == [r EXCEPT !.tls_version = "TLSv1.3", !.tls_cipher = "cipher"]
         IN IF cert = "ok" THEN [r1 EXCEPT !.cert_subject = "subject"] ELSE r1

\* The calls the TLS block makes, each with its outcome, up to the first raise.
TlsCalls(hasWrap, hs, cert) ==
    IF WrapSocketRaises(hasWrap) THEN << <<"wrap_socket", "raised">> >>
    ELSE IF hs # "ok" THEN << <<"wrap_socket", "ok">>, <<"do_handshake", "raised">> >>
    ELSE << <<"wrap_socket", "ok">>, <<"do_handshake", "ok">>,
            <<"getpeercert", cert>> >>

\* The default of --timeout, and the values the model runs with: the
\* default and a negative one, which sock.settimeout rejects.
DefaultTimeout == 3
TimeoutValues == {-1, DefaultTimeout}

----------------------------------------------------------------------------
(* scan_port, one action per statement group, as main runs it for --ip.    *)

InitProbe ==
    /\ timeout \in TimeoutValues
    /\ peerProto \in {"tls", "tls_mismatch", "plain"}
    /\ sslHasWrap \in BOOLEAN
    /\ pc = "socket"
    /\ result = EmptyResult
    /\ sock = "none"
    /\ ops = <<>>

\* sock = socket.socket(...): outside the try, an OSError leaves scan_port.
CreateSocket ==
    /\ prog = "single" /\ pc = "socket"
    /\ \E o \in {"ok", "raised"} :
         /\ ops' = Append(ops, <<"socket", o>>)
         /\ IF o = "ok"
            THEN sock' = "open" /\ pc' = "settimeout"
            ELSE sock' = sock /\ pc' = "raised"
    /\ UNCHANGED <<prog, timeout, peerProto, sslHasWrap, result, batchVars>>

\* sock.settimeout(timeout): outside the try, ValueError for a negative value.
SetTimeout ==
    /\ prog = "single" /\ pc = "settimeout"
    /\ IF timeout < 0
       THEN ops' = Append(ops, <<"settimeout", "raised">>) /\ pc' = "raised"
       ELSE ops' = Append(ops, <<"settimeout", "ok">>) /\ pc' = "connect"
    /\ UNCHANGED <<prog, timeout, peerProto, sslHasWrap, result, sock, batchVars>>

\* sock.connect((ip, port)) and the two assignments after it; a raise goes to
\* the matching except clause of the outer try.
Connect ==
    /\ prog = "single" /\ pc = "connect"
    /\ \E o \in {"ok", "timeout", "refused", "error"} :
         /\ ops' = Append(ops, <<"connect", o>>)
         /\ CASE o = "ok"      -> result' = AfterConnect(result) /\ pc' = "endpoints"
              [] o = "timeout" -> result' = ExceptTimeout(result) /\ pc' = "finally"
              [] o = "refused" -> result' = ExceptRefused(result) /\ pc' = "finally"
              [] o = "error"   -> result' = ExceptOther(result) /\ pc' = "finally"
    /\ UNCHANGED <<prog, timeout, peerProto, sslHasWrap, sock, batchVars>>

\* getsockname / getpeername: not wrapped, an OSError reaches the outer
\* except Exception.
Endpoints ==
    /\ prog = "single" /\ pc = "endpoints"
    /\ \E o \in {"ok", "raised"} :
         /\ ops' = Append(ops, <<"getpeername", o>>)
         /\ IF o = "ok"
            THEN result' = AfterEndpoints(result) /\ pc' = "service"
            ELSE result' = ExceptOther(result) /\ pc' = "finally"
    /\ UNCHANGED <<prog, timeout, peerProto, sslHasWrap, sock, batchVars>>

\* socket.getservbyport: OSError is caught and stores ''.
Service ==
    /\ prog = "single" /\ pc = "service"
    /\ \E o \in {"ok", "raised"} :
         /\ ops' = Append(ops, <<"getservbyport", o>>)
         /\ result' = [result EXCEPT !.service = IF o = "ok" THEN "svc" ELSE ""]
    /\ pc' = "rdns"
    /\ UNCHANGED <<prog, timeout, peerProto, sslHasWrap, sock, batchVars>>

\* socket.gethostbyaddr: only socket.herror is caught; socket.gaierror (not a
\* subclass of herror) reaches the outer except Exception.
Rdns ==
    /\ prog = "single" /\ pc = "rdns"
    /\ \E o \in {"ok", "herror", "gaierror"} :
         /\ ops' = Append(ops, <<"gethostbyaddr", o>>)
         /\ CASE o = "ok"       -> result' = [result EXCEPT !.rdns = "name"] /\ pc' = "sockopt"
              [] o = "herror"   -> result' = [result EXCEPT !.rdns = ""] /\ pc' = "sockopt"
              [] o = "gaierror" -> result' = ExceptOther(result) /\ pc' = "finally"
    /\ UNCHANGED <<prog, timeout, peerProto, sslHasWrap, sock, batchVars>>

\* The three getsockopt calls inside one try / except Exception: pass.
SockOpts ==
    /\ prog = "single" /\ pc = "sockopt"
    /\ \E n \in 0..3 :
         /\ ops' = Append(ops, <<"getsockopt", IF n = 3 THEN "ok" ELSE "raised">>)
         /\ result' = AfterSockOpts(result, n)
    /\ pc' = "banner"
    /\ UNCHANGED <<prog, timeout, peerProto, sslHasWrap, sock, batchVars>>

\* sock.settimeout(1.0); sock.recv(1024): a consuming read on the socket.
Banner ==
    /\ prog = "single" /\ pc = "banner"
    /\ \E o \in {"data", "empty", "raised"} :
         /\ ops' = Append(ops, <<"recv", o>>)
         /\ result' = AfterBanner(result, o)
    /\ pc' = "tls"
    /\ UNCHANGED <<prog, timeout, peerProto, sslHasWrap, sock, batchVars>>

\* The TLS block inside try / except Exception: pass.
Tls ==
    /\ prog = "single" /\ pc = "tls"
    /\ \E cert \in {"ok", "raised"} :
         /\ ops' = ops \o TlsCalls(sslHasWrap, Handshake(peerProto), cert)
         /\ result' = AfterTls(result, sslHasWrap, Handshake(peerProto), cert)
    /\ pc' = "finally"
    /\ UNCHANGED <<prog, timeout, peerProto, sslHasWrap, sock, batchVars>>

\* finally: sock.close(); return result.
Finally ==
    /\ prog = "single" /\ pc = "finally"
    /\ ops' = Append(ops, <<"close", "ok">>)
    /\ sock' = "closed"
    /\ pc' = "returned"
    /\ UNCHANGED <<prog, timeout, peerProto, sslHasWrap, result, batchVars>>

NextProbe ==
    \/ CreateSocket \/ SetTimeout \/ Connect \/ Endpoints \/ Service
    \/ Rdns \/ SockOpts \/ Banner \/ Tls \/ Finally

----------------------------------------------------------------------------
(* The batch programs: inputs, targets and the thread pool.                *)

\* Bounds of the model: the number of targets of a cross-product run, the
\* number of lines of each list of a pairwise run, the largest pool.
MaxTargets == 3
MaxPairs == 2
MaxWorkers == 2

\* The hosts and ports the input files may name; a list may repeat one.
Hosts == {"h1", "h2"}
PortNums == {80}

BoundedSeq(S, n) == UNION {[1..k -> S] : k \in 0..n}

\* targets = [(ip, port) for ip in ips for port in ports]
Targets(i, p) ==
    [k \in 1..(Len(i) * Len(p)) |->
        <<i[((k - 1) \div Len(p)) + 1], p[((k - 1) % Len(p)) + 1]>>]

\* autoCurl: the methods and protocols probed for every pair.
METHODS == <<"OPTIONS", "GET", "HEAD", "POST", "PUT", "DELETE", "PATCH">>
PROTOCOLS == <<"http", "https">>

\* The part of them the model runs: the first two methods over the first
\* protocol (the code treats every method and protocol alike).
Methods == SubSeq(METHODS, 1, 2)
Protocols == SubSeq(PROTOCOLS, 1, 1)

\* autoCurl: the probes in submission order, for each pair of zip(ips, ports),
\* each protocol, each method: <<pair index, protocol, method>>.
PerPair == Len(Protocols) * Len(Methods)
CurlTasks(i, p) ==
    LET n == IF Len(i) < Len(p) THEN Len(i) ELSE Len(p)
    IN [k \in 1..(n * PerPair) |->
          <<((k - 1) \div PerPair) + 1,
            Protocols[(((k - 1) % PerPair) \div Len(Methods)) + 1],
            Methods[((k - 1) % Len(Methods)) + 1]>>]

\* total: the number of tasks the run submits.
Total ==
    IF prog = "curl" THEN Len(CurlTasks(ips, ports)) ELSE Len(Targets(ips, ports))

\* A pool that admits one task more than max_workers.
SlotFree_OffByOne(run, w) == Cardinality(run) <= w

\* ThreadPoolExecutor(max_workers=w): a queued task is taken by a worker
\* thread only while fewer than w tasks are executing.
SlotFree(run, w) == Cardinality(run) < w

\* executor.submit: the task joins the work queue.
Submit ==
    /\ queue' = Append(queue, nsub + 1)
    /\ nsub' = nsub + 1

\* A worker thread takes the oldest queued task and starts executing it.
WorkerStart ==
    /\ prog \in {"bulk", "nc", "curl"}
    /\ queue # <<>>
    /\ SlotFree(running, W)
    /\ running' = running \cup {Head(queue)}
    /\ queue' = Tail(queue)
    /\ started' = Append(started, Head(queue))
    /\ UNCHANGED <<prog, probeVars, ips, ports, W, nsub, fut, mpc, yielded, err,
                   out, outfile, rq, checked, hpc, hitem, results, failedAt,
                   writers, puts>>

\* The futures that are finished and that as_completed has not yielded yet.
Ready == {t \in 1..nsub : fut[t] # "pending" /\ t \notin yielded}

InitPool ==
    /\ nsub = 0
    /\ queue = <<>>
    /\ running = {}
    /\ yielded = {}
    /\ err = "none"
    /\ out = <<>>
    /\ started = <<>>
    /\ failedAt = -1
    /\ writers = {}
    /\ puts = <<>>

\* The variables a program does not use keep these values.
IdleProbe ==
    /\ peerProto = "plain" /\ sslHasWrap = TRUE /\ pc = "idle"
    /\ result = EmptyResult /\ sock = "none" /\ ops = <<>>
IdleNc == rq = <<>> /\ checked = 0 /\ hpc = "idle" /\ hitem = <<>>
IdleCurl == results = <<>>

----------------------------------------------------------------------------
(* pythonAutoSock.main, bulk scan.                                         *)

\* How one scan_port call can end for the pool: it returns a result with
\* status True or False, or it raises (socket() or settimeout() raising,
\* both outside the try). A negative timeout makes settimeout raise always.
ScanPortOutcomes(tmo) ==
    IF tmo < 0 THEN {"raised"} ELSE {"open", "closed", "raised"}

InitBulk ==
    /\ prog = "bulk"
    /\ timeout \in TimeoutValues
    /\ IdleProbe /\ IdleNc /\ IdleCurl
    /\ \E i \in BoundedSeq(Hosts, MaxTargets), p \in BoundedSeq(PortNums, MaxTargets) :
         Len(i) * Len(p) <= MaxTargets /\ ips = i /\ ports = p
    /\ W \in 1..MaxWorkers
    /\ InitPool
    /\ fut = [t \in 1..Total |-> "pending"]
    /\ mpc = "submit"
    /\ outfile = "open"

\* The dict comprehension submitting one scan_port per target.
BulkSubmit ==
    /\ prog = "bulk" /\ mpc = "submit"
    /\ IF nsub < Total
       THEN Submit /\ mpc' = mpc
       ELSE mpc' = "collect" /\ UNCHANGED <<nsub, queue>>
    /\ UNCHANGED <<prog, probeVars, ips, ports, W, running, fut, started, yielded,
                   err, out, outfile, rq, checked, hpc, hitem, results, failedAt,
                   writers, puts>>

\* A worker's scan_port call ends; its future holds the result or exception.
BulkFinish ==
    /\ prog = "bulk"
    /\ \E t \in running, o \in ScanPortOutcomes(timeout) :
         /\ fut' = [fut EXCEPT ![t] = o]
         /\ running' = running \ {t}
    /\ UNCHANGED <<prog, probeVars, ips, ports, W, nsub, queue, started, mpc,
                   yielded, err, out, outfile, rq, checked, hpc, hitem, results,
                   failedAt, writers, puts>>

\* One round of the as_completed loop: future.result() re-raises the task's
\* exception; otherwise the row is written, and writerow may raise.
BulkCollect ==
    /\ prog = "bulk" /\ mpc = "collect"
    /\ IF yielded = 1..Total
       THEN mpc' = "shutdown" /\ UNCHANGED <<yielded, err, out, failedAt, writers>>
       ELSE \E t \in Ready :
              /\ yielded' = yielded \cup {t}
              /\ IF fut[t] = "raised"
                 THEN /\ err' = "TaskError" /\ mpc' = "shutdown"
                      /\ UNCHANGED <<out, failedAt, writers>>
                 ELSE \E w \in {"ok", "raised"} :
                        /\ writers' = writers \cup {"MainThread"}
                        /\ IF w = "ok"
                           THEN /\ out' = Append(out, <<t, fut[t]>>)
                                /\ UNCHANGED <<mpc, err, failedAt>>
                           ELSE /\ err' = "OutputError" /\ mpc' = "shutdown"
                                /\ failedAt' = Len(started)
                                /\ out' = out
    /\ UNCHANGED <<prog, probeVars, ips, ports, poolVars, outfile, rq, checked,
                   hpc, hitem, results, puts>>

\* Leaving the two with blocks: executor.shutdown(wait=True) returns once no
\* task is queued or running, then the CSV file is closed; an exception then
\* propagates out of main, otherwise "Bulk scan complete" is printed.
BulkShutdown ==
    /\ prog = "bulk" /\ mpc = "shutdown"
    /\ queue = <<>> /\ running = {}
    /\ outfile' = "closed"
    /\ mpc' = IF err = "none" THEN "done" ELSE "crashed"
    /\ UNCHANGED <<prog, probeVars, ips, ports, poolVars, yielded, err, out, rq,
                   checked, hpc, hitem, results, failedAt,
                   writers, puts>>

NextBulk == BulkSubmit \/ WorkerStart \/ BulkFinish \/ BulkCollect \/ BulkShutdown

----------------------------------------------------------------------------
(* autoNC.main: workers put results on result_queue, the result_handler    *)
(* thread writes them, the main thread waits for checked['count'].         *)

\* The four ways check_connection ends, and the success flag it enqueues.
NcPaths == {"rc_zero", "rc_nonzero", "timeout_expired", "exception"}
NcSuccess(path) == path = "rc_zero"

InitNc ==
    /\ prog = "nc"
    /\ timeout = DefaultTimeout
    /\ IdleProbe /\ IdleCurl
    /\ \E i \in BoundedSeq(Hosts, MaxTargets), p \in BoundedSeq(PortNums, MaxTargets) :
         Len(i) * Len(p) <= MaxTargets /\ ips = i /\ ports = p
    /\ W \in 1..MaxWorkers
    /\ InitPool
    /\ fut = [t \in 1..Total |-> "pending"]
    /\ mpc = "submit"
    /\ outfile = "open"
    /\ rq = <<>> /\ checked = 0 /\ hpc = "check" /\ hitem = <<>>

\* The submit loop (one submit, then sleep(1 / RATE_LIMIT)); after the last
\* target the with block of the executor is left.
NcSubmit ==
    /\ prog = "nc" /\ mpc = "submit"
    /\ IF nsub < Total
       THEN Submit /\ mpc' = mpc
       ELSE mpc' = "shutdown" /\ UNCHANGED <<nsub, queue>>
    /\ UNCHANGED <<prog, probeVars, ips, ports, W, running, fut, started, yielded,
                   err, out, outfile, rq, checked, hpc, hitem, results, failedAt,
                   writers, puts>>

\* A check_connection that writes its record to the output file itself, from
\* the worker thread that runs it.
NcFinish_WritesItself ==
    /\ prog = "nc"
    /\ \E t \in running, path \in NcPaths :
         /\ rq' = Append(rq, <<t, NcSuccess(path)>>)
         /\ puts' = Append(puts, t)
         /\ out' = Append(out, <<t, NcSuccess(path)>>)
         /\ writers' = writers \cup {"worker"}
         /\ fut' = [fut EXCEPT ![t] = "done"]
         /\ running' = running \ {t}
    /\ UNCHANGED <<prog, probeVars, ips, ports, W, nsub, queue, started, mpc,
                   yielded, err, outfile, checked, hpc, hitem, results,
                   failedAt>>

\* A check_connection that also advances the progress counter, from the
\* worker thread that runs it.
NcFinish_CountsItself ==
    /\ prog = "nc"
    /\ \E t \in running, path \in NcPaths :
         /\ rq' = Append(rq, <<t, NcSuccess(path)>>)
         /\ puts' = Append(puts, t)
         /\ checked' = checked + 1
         /\ fut' = [fut EXCEPT ![t] = "done"]
         /\ running' = running \ {t}
    /\ UNCHANGED <<prog, probeVars, ips, ports, W, nsub, queue, started, mpc,
                   yielded, err, out, outfile, hpc, hitem, results,
                   failedAt, writers>>

\* check_connection ends: on each of its four paths it puts one result.
NcFinish ==
    /\ prog = "nc"
    /\ \E t \in running, path \in NcPaths :
         /\ rq' = Append(rq, <<t, NcSuccess(path)>>)
         /\ puts' = Append(puts, t)
         /\ fut' = [fut EXCEPT ![t] = "done"]
         /\ running' = running \ {t}
    /\ UNCHANGED <<prog, probeVars, ips, ports, W, nsub, queue, started, mpc,
                   yielded, err, out, outfile, checked, hpc, hitem, results,
                   failedAt, writers>>

\* executor.shutdown(wait=True) on leaving the with block.
NcShutdown ==
    /\ prog = "nc" /\ mpc = "shutdown"
    /\ queue = <<>> /\ running = {}
    /\ mpc' = "wait"
    /\ UNCHANGED <<prog, probeVars, ips, ports, poolVars, yielded, err, out,
                   outfile, rq, checked, hpc, hitem, results, failedAt,
                   writers, puts>>

\* while checked['count'] < total: sleep(1); then the output file is closed
\* and main returns. While the count is short the loop only sleeps.
NcWait ==
    /\ prog = "nc" /\ mpc = "wait"
    /\ checked >= Total
    /\ outfile' = "closed"
    /\ mpc' = "done"
    /\ UNCHANGED <<prog, probeVars, ips, ports, poolVars, yielded, err, out, rq,
                   checked, hpc, hitem, results, failedAt,
                   writers, puts>>

\* result_handler: the loop test.
HandlerCheck ==
    /\ prog = "nc" /\ hpc = "check"
    /\ hpc' = IF checked < Total THEN "get" ELSE "exit"
    /\ UNCHANGED <<prog, probeVars, ips, ports, poolVars, mpc, yielded, err, out,
                   outfile, rq, checked, hitem, results, failedAt,
                   writers, puts>>

\* result_queue.get(timeout=1): an item, or Empty and continue.
HandlerGet ==
    /\ prog = "nc" /\ hpc = "get"
    /\ IF rq # <<>>
       THEN hitem' = Head(rq) /\ rq' = Tail(rq) /\ hpc' = "count"
       ELSE hpc' = "check" /\ UNCHANGED <<hitem, rq>>
    /\ UNCHANGED <<prog, probeVars, ips, ports, poolVars, mpc, yielded, err, out,
                   outfile, checked, results, failedAt,
                   writers, puts>>

\* checked['count'] += 1, under the lock only this thread takes.
HandlerCount ==
    /\ prog = "nc" /\ hpc = "count"
    /\ checked' = checked + 1
    /\ hpc' = "write"
    /\ UNCHANGED <<prog, probeVars, ips, ports, poolVars, mpc, yielded, err, out,
                   outfile, rq, hitem, results, failedAt,
                   writers, puts>>

\* print, outfile.write, outfile.flush: a raise ends the thread (nothing
\* catches it); writing to the closed file raises ValueError.
HandlerWrite ==
    /\ prog = "nc" /\ hpc = "write"
    /\ writers' = writers \cup {"result_handler"}
    /\ IF outfile = "closed"
       THEN hpc' = "dead" /\ UNCHANGED <<out, failedAt>>
       ELSE \E w \in {"ok", "raised"} :
              IF w = "ok"
              THEN out' = Append(out, hitem) /\ hpc' = "check" /\ failedAt' = failedAt
              ELSE out' = out /\ hpc' = "dead" /\ failedAt' = Len(started)
    /\ UNCHANGED <<prog, probeVars, ips, ports, poolVars, mpc, yielded, err,
                   outfile, rq, checked, hitem, results, puts>>

NextNc ==
    \/ NcSubmit \/ WorkerStart \/ NcFinish \/ NcShutdown \/ NcWait
    \/ HandlerCheck \/ HandlerGet \/ HandlerCount \/ HandlerWrite

----------------------------------------------------------------------------
(* autoCurl.main: pairwise targets, one probe per protocol and method.     *)

\* The status codes a probe may report; -1 stands for None.
StatusCodes == {-1, 0, 200, 404}

\* if code and 200 <= code < 400
Allowed(code) == code # -1 /\ code # 0 /\ 200 <= code /\ code < 400

\* A length test that only rejects a longer host list.
LengthMismatch_OneSided(i, p) == Len(i) > Len(p)

\* if len(ips) != len(ports): the configuration error.
LengthMismatch(i, p) == Len(i) # Len(p)

\* The key of results a task reports under: (ip, port, proto).
CurlKey(t) ==
    LET task == CurlTasks(ips, ports)[t]
    IN <<ips[task[1]], ports[task[1]], task[2]>>
CurlKeys == {CurlKey(t) : t \in 1..Len(CurlTasks(ips, ports))}

\* An output loop that prints the first pair on every line.
CurlLine_FirstPair(k) ==
    <<ips[1], ports[1],
      [j \in 1..Len(Protocols) |-> results[<<ips[1], ports[1], Protocols[j]>>]]>>

\* The line written for pair k: the pair and, for each protocol, the list of
\* its allowed methods.
CurlLine(k) ==
    <<ips[k], ports[k],
      [j \in 1..Len(Protocols) |-> results[<<ips[k], ports[k], Protocols[j]>>]]>>

InitCurl ==
    /\ prog = "curl"
    /\ timeout = DefaultTimeout
    /\ IdleProbe /\ IdleNc
    /\ ips \in BoundedSeq(Hosts, MaxPairs)
    /\ ports \in BoundedSeq(PortNums, MaxPairs)
    /\ W \in 1..MaxWorkers
    /\ InitPool
    /\ fut = [t \in 1..Total |-> "pending"]
    /\ mpc = "check"
    /\ outfile = "none"
    /\ results = <<>>

\* The length test: on a mismatch the message and sys.exit(1); otherwise the
\* results dict is built.
CurlCheck ==
    /\ prog = "curl" /\ mpc = "check"
    /\ IF LengthMismatch(ips, ports)
       THEN mpc' = "config_error" /\ err' = "ConfigError" /\ results' = results
       ELSE mpc' = "submit" /\ err' = err /\ results' = [k \in CurlKeys |-> <<>>]
    /\ UNCHANGED <<prog, probeVars, ips, ports, poolVars, yielded, out, outfile,
                   rq, checked, hpc, hitem, failedAt,
                   writers, puts>>

\* The nested submit loops.
CurlSubmit ==
    /\ prog = "curl" /\ mpc = "submit"
    /\ IF nsub < Total
       THEN Submit /\ mpc' = mpc
       ELSE mpc' = "collect" /\ UNCHANGED <<nsub, queue>>
    /\ UNCHANGED <<prog, probeVars, ips, ports, W, running, fut, started, yielded,
                   err, out, outfile, rq, checked, hpc, hitem, results, failedAt,
                   writers, puts>>

\* probe_method returns a status code or None; it never raises.
CurlFinish ==
    /\ prog = "curl"
    /\ \E t \in running, code \in StatusCodes :
         /\ fut' = [fut EXCEPT ![t] = IF Allowed(code) THEN "allowed" ELSE "denied"]
         /\ running' = running \ {t}
    /\ UNCHANGED <<prog, probeVars, ips, ports, W, nsub, queue, started, mpc,
                   yielded, err, out, outfile, rq, checked, hpc, hitem, results,
                   failedAt, writers, puts>>

\* One round of the as_completed loop: an allowed method is appended to the
\* list of its (ip, port, proto).
CurlCollect ==
    /\ prog = "curl" /\ mpc = "collect"
    /\ IF yielded = 1..Total
       THEN mpc' = "shutdown" /\ UNCHANGED <<yielded, results>>
       ELSE \E t \in Ready :
              /\ yielded' = yielded \cup {t}
              /\ results' = IF fut[t] = "allowed"
                            THEN [results EXCEPT ![CurlKey(t)] =
                                    Append(@, CurlTasks(ips, ports)[t][3])]
                            ELSE results
              /\ mpc' = mpc
    /\ UNCHANGED <<prog, probeVars, ips, ports, poolVars, err, out, outfile, rq,
                   checked, hpc, hitem, failedAt,
                   writers, puts>>

\* Leaving the with block of the pool, then open(output_file, "w").
CurlShutdown ==
    /\ prog = "curl" /\ mpc = "shutdown"
    /\ queue = <<>> /\ running = {}
    /\ outfile' = "open"
    /\ mpc' = "write"
    /\ UNCHANGED <<prog, probeVars, ips, ports, poolVars, yielded, err, out, rq,
                   checked, hpc, hitem, results, failedAt,
                   writers, puts>>

\* The output loop: one line per pair of zip(ips, ports), in input order.
CurlWrite ==
    /\ prog = "curl" /\ mpc = "write"
    /\ IF Len(out) < Len(ips)
       THEN /\ out' = Append(out, CurlLine(Len(out) + 1))
            /\ writers' = writers \cup {"MainThread"}
            /\ UNCHANGED <<mpc, outfile>>
       ELSE out' = out /\ mpc' = "done" /\ outfile' = "closed" /\ writers' = writers
    /\ UNCHANGED <<prog, probeVars, ips, ports, poolVars, yielded, err, rq,
                   checked, hpc, hitem, results, failedAt,
                   puts>>

NextCurl ==
    \/ CurlCheck \/ CurlSubmit \/ WorkerStart \/ CurlFinish \/ CurlCollect
    \/ CurlShutdown \/ CurlWrite

----------------------------------------------------------------------------
(* The specifications.                                                     *)

InitSingle ==
    /\ prog = "single" /\ InitProbe
    /\ ips = <<>> /\ ports = <<>>
    /\ W = 1 /\ InitPool /\ fut = <<>> /\ mpc = "idle" /\ outfile = "none"
    /\ IdleNc /\ IdleCurl

Init == InitSingle \/ InitBulk \/ InitNc \/ InitCurl

Next == NextProbe \/ NextBulk \/ NextNc \/ NextCurl

Spec == Init /\ [][Next]_vars
SpecProbe == InitSingle /\ [][NextProbe]_vars
SpecBulk == InitBulk /\ [][NextBulk]_vars
SpecNc == InitNc /\ [][NextNc]_vars
SpecCurl == InitCurl /\ [][NextCurl]_vars

----------------------------------------------------------------------------
(* Vocabulary of the properties.                                           *)

\* scan_port made the call and it ended with the outcome.
Did(call, outcome) == \E i \in 1..Len(ops) : ops[i] = <<call, outcome>>
\* scan_port made the call.
Called(call) == \E i \in 1..Len(ops) : ops[i][1] = call
\* scan_port has returned its result dict to main.
Returned == prog = "single" /\ pc = "returned"

TlsAbsent(r) == r.tls_version = "" /\ r.tls_cipher = "" /\ r.cert_subject = ""
\* Every optional field but banner.
MetadataAbsent(r) ==
    /\ r.latency_ms = ""
    /\ r.local_ip = "" /\ r.local_port = "" /\ r.peer_ip = "" /\ r.peer_port = ""
    /\ r.service = "" /\ r.rdns = ""
    /\ r.sndbuf = "" /\ r.rcvbuf = "" /\ r.ttl = ""
    /\ TlsAbsent(r)

\* The failure reason of a result: the code has no field of its own for it,
\* a failed probe carries it as the message in the banner column.
FailureReason(r) ==
    CASE r.status -> "none"
      [] r.banner = MsgTimeout -> "Timeout"
      [] r.banner = MsgRefused -> "Refused"
      [] r.banner = MsgError -> "Other"
      [] OTHER -> "none"

\* The batch has ended: main returned, or an exception left it.
BatchEnded == mpc \in {"done", "crashed"}
\* The rows written for task t.
RowsOf(t) == {k \in 1..Len(out) : out[k][1] = t}

----------------------------------------------------------------------------
(* Properties.                                                             *)

\* C1: in the bulk scan, when no write to the output failed, the run ends
\* with exactly one row per submitted target occurrence (N rows for N
\* targets), whatever the completion order and the outcome of each probe.
C1_OneRowPerTarget ==
    (prog = "bulk" /\ BatchEnded /\ failedAt = -1) =>
        /\ Len(out) = Len(Targets(ips, ports))
        /\ \A t \in 1..Len(Targets(ips, ports)) : Cardinality(RowsOf(t)) = 1

\* C2: once connect has succeeded, scan_port returns status True, every
\* later sub-step was attempted, and each sub-step that succeeded left its
\* field present, whatever sub-steps failed.
C2_NoDowngradeAfterConnect ==
    (Returned /\ Did("connect", "ok")) =>
        /\ result.status = TRUE
        /\ \A c \in {"getpeername", "getservbyport", "gethostbyaddr",
                     "getsockopt", "recv", "wrap_socket"} : Called(c)
        /\ Did("getpeername", "ok") => result.peer_ip # ""
        /\ Did("getservbyport", "ok") => result.service # ""
        /\ Did("gethostbyaddr", "ok") => result.rdns # ""

\* C3: every result returned with status False has latency_ms absent and the
\* TLS fields absent, holds no service banner and carries a failure reason
\* (the banner column holds the failure message and nothing else).
C3_FailedResultIsBare ==
    (Returned /\ result.status = FALSE) =>
        /\ result.latency_ms = ""
        /\ TlsAbsent(result)
        /\ result.banner \in FailureMessages
        /\ FailureReason(result) # "none"

C5_TlsDetected ==
    (Returned /\ Did("connect", "ok") /\ Called("wrap_socket")) =>
        /\ peerProto = "tls" => result.tls_version # ""
        /\ peerProto = "plain" => TlsAbsent(result)

\* C6: on a connected socket every consuming read (recv) comes after a TLS
\* attempt on that socket, and a probe that attempted TLS and completed the
\* handshake reads no banner: the two paths exclude each other.
C6_TlsBeforeConsumingRead ==
    /\ \A i \in 1..Len(ops) :
         ops[i][1] = "recv" => \E j \in 1..(i - 1) : ops[j][1] = "wrap_socket"
    /\ ~(Called("recv") /\ Did("do_handshake", "ok"))

\* C7: a TLS step that failed (wrap_socket or do_handshake raised) leaves
\* the TLS fields absent and status True, and leaves the banner field as
\* the banner read left it: no failure message, no probe failure.
C7_TlsFailureMasked ==
    (prog = "single" /\ pc \in {"finally", "returned"}
        /\ (Did("wrap_socket", "raised") \/ Did("do_handshake", "raised"))) =>
        /\ result.status = TRUE
        /\ TlsAbsent(result)
        /\ result.banner = (IF Did("recv", "data") THEN "BANNER" ELSE "")
        /\ FailureReason(result) = "none"

C7_Witness ==
    Returned /\ Did("wrap_socket", "raised") /\ result.banner = "BANNER"
    /\ peerProto = "tls"

\* C8: once a write of a result to the output has failed, no further probe
\* is started, and the run does not end as a success: it stops with the
\* error reported (bulk scan of pythonAutoSock and autoNC alike).
C8_WriteFailureStopsBatch ==
    (prog \in {"bulk", "nc"} /\ failedAt >= 0) =>
        /\ Len(started) = failedAt
        /\ mpc # "done"

\* C9: in every pool (pythonAutoSock, autoNC, autoCurl) at most W probes
\* execute at once, tasks are started in submission order, and whenever a
\* slot is free while a submitted task is pending a worker can take the
\* next pending task.
C9_BoundedPool ==
    prog \in {"bulk", "nc", "curl"} =>
        /\ Cardinality(running) <= W
        /\ \A k \in 1..Len(started) : started[k] = k
        /\ (queue # <<>> /\ Cardinality(running) < W) => ENABLED WorkerStart
        /\ running \cap {queue[k] : k \in 1..Len(queue)} = {}

C9_Witness ==
    /\ prog \in {"bulk", "nc", "curl"}
    /\ W = 2 /\ Cardinality(running) = W /\ queue # <<>>

\* C10: in autoCurl, with a host list and a port list of different lengths
\* the run ends in the configuration error: no probe is ever submitted or
\* started, the output file is never opened and nothing is written.
C10_MismatchIsConfigError ==
    (prog = "curl" /\ Len(ips) # Len(ports)) =>
        /\ mpc \in {"check", "config_error"}
        /\ mpc = "config_error" => err = "ConfigError"
        /\ nsub = 0 /\ queue = <<>> /\ running = {} /\ started = <<>>
        /\ outfile = "none" /\ out = <<>>

C10_Witness ==
    prog = "curl" /\ mpc = "config_error" /\ Len(ips) = 1 /\ Len(ports) = 2

\* C11: a batch whose host list or port list is empty never completes
\* successfully: pythonAutoSock.main, autoNC.main and autoCurl.main do not
\* reach their normal end with an empty input.
C11_EmptyInputIsConfigError ==
    (prog \in {"bulk", "nc", "curl"} /\ (ips = <<>> \/ ports = <<>>)) =>
        mpc # "done"

\* C12: scan_port never raises: an invocation never ends with an exception
\* leaving the function, and in the bulk scan no future hands an exception
\* of its task to the as_completed loop of main.
C12_ProbeNeverRaises ==
    /\ prog = "single" => pc # "raised"
    /\ prog = "bulk" => err # "TaskError" /\ \A t \in 1..nsub : fut[t] # "raised"

\* C13: when a scan_port invocation has ended, by returning its result or by
\* an exception, the socket it opened is closed.
C13_SocketClosedOnExit ==
    (prog = "single" /\ pc \in {"returned", "raised"}) => sock # "open"

\* The probes of occurrence k (the k-th input pair) and protocol j that
\* reported an allowed status code.
AllowedOf(k, j) ==
    {t \in 1..Len(CurlTasks(ips, ports)) :
        /\ CurlTasks(ips, ports)[t][1] = k
        /\ CurlTasks(ips, ports)[t][2] = Protocols[j]
        /\ fut[t] = "allowed"}

\* C14: every occurrence of a target has its own result. A bulk scan that
\* ends normally holds one row per occurrence, with the status of that
\* occurrence's probe; in autoCurl the methods on the line of the k-th pair
\* are exactly the allowed methods of the probes of that occurrence.
C14_OccurrencesIndependent ==
    /\ (prog = "bulk" /\ mpc = "done") =>
          \A t \in 1..Len(Targets(ips, ports)) :
             \E k \in 1..Len(out) : RowsOf(t) = {k} /\ out[k] = <<t, fut[t]>>
    /\ (prog = "curl" /\ mpc = "done") =>
          \A k \in 1..Len(out) : \A j \in 1..Len(Protocols) :
             /\ Len(out[k][3][j]) = Cardinality(AllowedOf(k, j))
             /\ \A n \in 1..Len(out[k][3][j]) :
                  \E t \in AllowedOf(k, j) :
                     CurlTasks(ips, ports)[t][3] = out[k][3][j][n]

\* C15: in autoNC, when main has left its wait loop and closed the output
\* file, and no write to the open file failed, no counted result is still
\* waiting to be written and the output holds exactly one record per target.
C15_WrittenBeforeClose ==
    (prog = "nc" /\ mpc = "done" /\ failedAt = -1) =>
        /\ hpc # "write"
        /\ Len(out) = Len(Targets(ips, ports))
        /\ \A t \in 1..Len(Targets(ips, ports)) : Cardinality(RowsOf(t)) = 1

\* C16: every result scan_port returns with status True has latency_ms
\* present and the peer endpoint (peer_ip, peer_port) present.
C16_OpenHasLatencyAndPeer ==
    (Returned /\ result.status = TRUE) =>
        /\ result.latency_ms # ""
        /\ result.peer_ip # "" /\ result.peer_port # ""

\* A returned open result.
C16_Witness ==
    /\ Returned /\ result.status = TRUE
    /\ Did("connect", "ok") /\ Did("getpeername", "ok")

\* C17: in every result scan_port returns, tls_version and tls_cipher are
\* both present or both absent, and cert_subject is present only when both
\* are present.
C17_TlsInfoConsistent ==
    Returned =>
        /\ result.tls_version = "" <=> result.tls_cipher = ""
        /\ result.cert_subject # "" =>
              result.tls_version # "" /\ result.tls_cipher # ""

\* A returned result whose TLS step was entered and failed.
C17_Witness ==
    /\ Returned /\ result.status = TRUE
    /\ Called("wrap_socket") /\ ~Did("getpeercert", "ok")

\* C18: the output has a single writer. In pythonAutoSock.main only the main
\* thread and in autoNC.main only the result_handler thread ever writes to
\* the output file, and the file holds whole records, one per write, each of
\* one target and no target twice.
C18_SingleWriter ==
    /\ prog = "bulk" => writers \subseteq {"MainThread"}
    /\ prog = "nc" => writers \subseteq {"result_handler"}
    /\ prog \in {"bulk", "nc"} =>
          /\ \A k \in 1..Len(out) :
                /\ Len(out[k]) = 2
                /\ out[k][1] \in 1..Len(Targets(ips, ports))
                /\ fut[out[k][1]] # "pending"
                /\ prog = "bulk" => out[k][2] = fut[out[k][1]]
          /\ \A t \in 1..Len(Targets(ips, ports)) : Cardinality(RowsOf(t)) <= 1

\* autoNC about to write a record while another result is queued and a
\* third probe is still running.
C18_Witness ==
    /\ prog = "nc" /\ hpc = "write" /\ outfile = "open"
    /\ rq # <<>> /\ running # {}

\* autoNC: the number of results taken off result_queue so far.
Dequeued == Len(puts) - Len(rq)
\* autoNC: the number of results task t has put on result_queue.
PutsOf(t) == Cardinality({k \in 1..Len(puts) : puts[k] = t})

\* C19 as stated: every finished check_connection has put exactly one
\* result (an unfinished one none), and in every state checked['count']
\* equals the number of results dequeued and does not exceed the number of
\* targets.
C19_CounterEqualsDequeued ==
    prog = "nc" =>
        /\ \A t \in 1..Len(Targets(ips, ports)) :
              PutsOf(t) = IF fut[t] = "done" THEN 1 ELSE 0
        /\ checked = Dequeued
        /\ checked <= Len(Targets(ips, ports))

\* C19: every finished check_connection has put exactly one result (an
\* unfinished one none); checked['count'] never exceeds the number of
\* targets and equals the number of results dequeued, except while
\* result_handler holds an item it has taken and not yet counted, when it
\* is one less. (A worker writing the counter would break the equality.)
C19_CounterTracksHandler ==
    prog = "nc" =>
        /\ \A t \in 1..Len(Targets(ips, ports)) :
              PutsOf(t) = IF fut[t] = "done" THEN 1 ELSE 0
        /\ checked = Dequeued - (IF hpc = "count" THEN 1 ELSE 0)
        /\ checked <= Len(Targets(ips, ports))

\* result_handler has counted one result and holds a second it has not
\* counted yet, while a third waits in the queue.
C19_Witness ==
    prog = "nc" /\ checked = 1 /\ hpc = "count" /\ rq # <<>>

\* autoCurl: the allowed methods among the probes of a key (ip, port, proto),
\* in the order the probes were submitted.
SubmittedAllowed(key) ==
    LET n == Len(CurlTasks(ips, ports))
        hits == SelectSeq([t \in 1..n |-> t],
                          LAMBDA t : CurlKey(t) = key /\ fut[t] = "allowed")
    IN [x \in 1..Len(hits) |-> CurlTasks(ips, ports)[hits[x]][3]]
\* The number of times method m occurs in the list s.
Occurrences(s, m) == Cardinality({x \in 1..Len(s) : s[x] = m})

\* C20 as stated: the output of a finished autoCurl run is a function of the
\* inputs and of the probes' status codes: one line per input pair in input
\* order, each protocol's allowed methods in the one order that does not
\* depend on which probe completed first (the order of submission, which is
\* what a run whose probes complete in that order writes).
C20_OutputDeterministic ==
    (prog = "curl" /\ mpc = "done") =>
        out = [k \in 1..Len(ips) |->
                 <<ips[k], ports[k],
                   [j \in 1..Len(Protocols) |->
                      SubmittedAllowed(<<ips[k], ports[k], Protocols[j]>>)]>>]

\* C20: the output of a finished autoCurl run has one line per input pair in
\* input order, and each protocol's list on a line holds exactly the allowed
\* methods of the probes of its (ip, port, proto), each as often as it was
\* found allowed, in some order.
C20_OutputUpToMethodOrder ==
    (prog = "curl" /\ mpc = "done") =>
        /\ Len(out) = Len(ips)
        /\ \A k \in 1..Len(out) :
              /\ out[k][1] = ips[k] /\ out[k][2] = ports[k]
              /\ \A j \in 1..Len(Protocols) :
                    LET want == SubmittedAllowed(<<ips[k], ports[k], Protocols[j]>>)
                    IN /\ Len(out[k][3][j]) = Len(want)
                       /\ \A x \in 1..Len(Methods) :
                             Occurrences(out[k][3][j], Methods[x]) =
                                Occurrences(want, Methods[x])

\* A finished run over two different hosts in which one line lists its two
\* allowed methods in the reverse of their submission order.
C20_Witness ==
    /\ prog = "curl" /\ mpc = "done" /\ Len(out) = 2 /\ ips[1] # ips[2]
    /\ \E k \in 1..2 : out[k][3][1] = <<Methods[2], Methods[1]>>

=============================================================================
